---------------------------- MODULE Spec2Model ----------------------------
(***************************************************************************)
(* The two notebooks 02_on_tensors.ipynb and 03_autograd.ipynb as one      *)
(* Python kernel session each: the kernel's heap (storages, tensor and     *)
(* ndarray objects, the autograd graph), its namespace, the output of the  *)
(* last statement and the statement to run next.  A behaviour runs one of  *)
(* the notebooks top to bottom.  The statements the notebooks keep behind  *)
(* a "# error" comment can be run in place of skipping them.               *)
(*                                                                         *)
(* Numbers of 03_autograd are fixed-point: the integer v stands for v/Unit,*)
(* which is exact for every value the notebook computes.  Numbers of       *)
(* 02_on_tensors are plain integers (its arithmetic is never exercised).   *)
(*                                                                         *)
(* Not modelled: the factory, dtype and device cells of 02_on_tensors      *)
(* (cells 5-12, 19-28), randn_like/matmul of cells 13-14, make_dot, and    *)
(* the y = x.sum() ... y.backward() chain of 03_autograd cells 13-16.      *)
(***************************************************************************)
EXTENDS Integers, Sequences, FiniteSets, TLC

VARIABLES
    nb,      \* the notebook this kernel runs
    pc,      \* the statement to run next
    mem,     \* storages: mem[s] is the flat buffer of storage s
    objs,    \* heap of tensor / ndarray objects, by object id
    tape,    \* autograd graph: the backward nodes, in creation order
    env,     \* namespace: variable name -> object id, 0 when unbound
    i,       \* the loop variable of 03_autograd cell 11, -1 when unbound
    out,     \* what the last statement printed or displayed
    err      \* the exception the last statement raised, "none" if none

vars == <<nb, pc, mem, objs, tape, env, i, out, err>>

---------------------------------------------------------------------------
\* Bounds of the model.

\* np.random.randn / torch.randn draw from 0 .. MaxRand
MaxRand == 1

RandVals == 0 .. MaxRand

---------------------------------------------------------------------------
\* Program constants.

\* fixed-point scale of 03_autograd: 1.0 is Unit
Unit == 2 * 2

\* for i in range(3)
LoopRange == 3

\* tens[0, 0] = 10.0
TensWrite == 10

\* arr_from_tens[0, 1] = 20.0
ArrWrite == 20

\* x[0] = 99
XWrite == 99

Names == {"arr_np", "tens", "arr_from_tens", "a", "b", "c", "d", "e", "x", "x_dn"}

NoGrad == <<>>

---------------------------------------------------------------------------
\* Storage and views.

RECURSIVE Prod(_)
Prod(s) == IF s = <<>> THEN 1 ELSE Head(s) * Prod(Tail(s))

\* number of elements of a shape
Numel(shape) == Prod(shape)

\* strides of a contiguous (row-major) tensor of this shape
Contig(shape) ==
    [k \in 1 .. Len(shape) |-> Prod(SubSeq(shape, k + 1, Len(shape)))]

Reverse(s) == [k \in 1 .. Len(s) |-> s[Len(s) + 1 - k]]

\* a fresh object over storage st
NewObj(kind, st, shape, req, fn) ==
    [kind |-> kind, st |-> st, shape |-> shape, stride |-> Contig(shape),
     off |-> 0, req |-> req, fn |-> fn, retain |-> FALSE, grad |-> NoGrad]

\* position in the storage of the element at (0-based) index idx
RECURSIVE Dot(_, _)
Dot(u, v) == IF u = <<>> THEN 0 ELSE Head(u) * Head(v) + Dot(Tail(u), Tail(v))

Pos(o, idx) == o.off + Dot(idx, o.stride) + 1

\* the (0-based) index of the k-th element, k = 0 .. numel-1, in row-major order
Unravel(shape, k) ==
    [d \in 1 .. Len(shape) |->
        (k \div Prod(SubSeq(shape, d + 1, Len(shape)))) % shape[d]]

\* the elements an object shows, in row-major order
ElemsIn(m, o) ==
    [k \in 1 .. Numel(o.shape) |-> m[o.st][Pos(o, Unravel(o.shape, k - 1))]]

Elems(id) == ElemsIn(mem, objs[id])

\* a mutant of SetItem: the write lands in the first storage of the heap
SetItemElsewhere(m, o, idx, val) ==
    [m EXCEPT ![1] = [@ EXCEPT ![Pos(o, idx)] = val]]

\* v1[idx] = val: an in-place write through the object
SetItem(m, o, idx, val) ==
    [m EXCEPT ![o.st] = [@ EXCEPT ![Pos(o, idx)] = val]]

---------------------------------------------------------------------------
\* The heap H = [mem, objs, tape] and the library calls that allocate in it.

Heap == [mem |-> mem, objs |-> objs, tape |-> tape]

\* a new storage holding data; its id is Len(H.mem) + 1
Alloc(H, data) == [H EXCEPT !.mem = Append(@, data)]

\* a new object; its id is Len(H.objs) + 1
Put(H, o) == [H EXCEPT !.objs = Append(@, o)]

\* the id of the object made last
Last(H) == Len(H.objs)

\* np.random.randn(*shape) / torch.randn(*shape): fresh storage, drawn values
Randn(H, kind, shape, vals) ==
    Put(Alloc(H, vals), NewObj(kind, Len(H.mem) + 1, shape, FALSE, 0))

\* a mutant of TorchTensor: the tensor is built over the argument's storage
TorchTensorShares(H, src) ==
    Put(H, [H.objs[src] EXCEPT !.kind = "tensor"])

\* torch.tensor(arr): a tensor over a fresh storage holding a copy of arr
TorchTensor(H, src) ==
    Put(Alloc(H, ElemsIn(H.mem, H.objs[src])),
        NewObj("tensor", Len(H.mem) + 1, H.objs[src].shape, FALSE, 0))

\* torch.tensor(<literal>, requires_grad=req), torch.ones(shape, requires_grad=req)
FromList(H, data, shape, req) ==
    Put(Alloc(H, data), NewObj("tensor", Len(H.mem) + 1, shape, req, 0))

\* a mutant of NumpyRefused: numpy() is never refused
NumpyRefusedNever(o) == FALSE

\* whether t.numpy() is refused: not on a tensor that requires grad
NumpyRefused(o) == o.req

\* a mutant of Numpy: the array is a copy of the tensor's elements
NumpyCopies(H, id) ==
    Put(Alloc(H, ElemsIn(H.mem, H.objs[id])),
        NewObj("ndarray", Len(H.mem) + 1, H.objs[id].shape, FALSE, 0))

\* t.numpy(): an ndarray over the tensor's own storage
Numpy(H, id) ==
    Put(H, [H.objs[id] EXCEPT !.kind = "ndarray", !.req = FALSE, !.fn = 0,
                              !.retain = FALSE, !.grad = NoGrad])

\* t.T: the dimensions reversed, over the same storage
DotT(o) == [o EXCEPT !.shape = Reverse(o.shape), !.stride = Reverse(o.stride)]

\* t.transpose(d0, d1) (0-based dimensions), over the same storage
Transpose(o, d0, d1) ==
    [o EXCEPT !.shape = [@ EXCEPT ![d0 + 1] = o.shape[d1 + 1],
                                  ![d1 + 1] = o.shape[d0 + 1]],
              !.stride = [@ EXCEPT ![d0 + 1] = o.stride[d1 + 1],
                                   ![d1 + 1] = o.stride[d0 + 1]]]

\* a mutant of TRefused: t() accepts any number of dimensions
TRefusedNever(o) == FALSE

\* whether t.t() is refused: t() expects a tensor with <= 2 dimensions
TRefused(o) == Len(o.shape) > 2

\* t.t() where it is accepted: dimensions 0 and 1 swapped, 0-D and 1-D as is
DotLowerT(o) == IF Len(o.shape) < 2 THEN o ELSE Transpose(o, 0, 1)

---------------------------------------------------------------------------
\* Printing.

None == [k |-> "None", v |-> <<>>, shape |-> <<>>, req |-> FALSE]

Bool(x) == [k |-> "bool", v |-> <<IF x THEN 1 ELSE 0>>, shape |-> <<>>, req |-> FALSE]

Size(o) == [k |-> "Size", v |-> o.shape, shape |-> <<>>, req |-> FALSE]

\* print(t) of a view o of the heap
ShowObj(H, o) ==
    [k |-> o.kind, v |-> ElemsIn(H.mem, o), shape |-> o.shape, req |-> o.req]

Show(H, id) == ShowObj(H, H.objs[id])

\* print(t.grad)
ShowGrad(H, id) ==
    IF H.objs[id].grad = NoGrad THEN None
    ELSE [k |-> "tensor", v |-> H.objs[id].grad, shape |-> H.objs[id].shape,
          req |-> FALSE]

---------------------------------------------------------------------------
\* Statements of 02_on_tensors.ipynb.

\* the heap becomes H, the statement raised nothing
Commit(H) ==
    /\ mem' = H.mem
    /\ objs' = H.objs
    /\ tape' = H.tape
    /\ err' = "none"

\* cell 3: arr_np = np.random.randn(2, 3); print
T3_arr_np ==
    /\ nb = "02_on_tensors" /\ pc = "T3_arr_np"
    /\ \E vals \in [1 .. 6 -> RandVals] :
         LET H == Randn(Heap, "ndarray", <<2, 3>>, vals) IN
         /\ Commit(H)
         /\ env' = [env EXCEPT !["arr_np"] = Last(H)]
         /\ out' = <<Show(H, Last(H))>>
    /\ pc' = "T3_tens"
    /\ UNCHANGED <<nb, i>>

\* cell 3: tens = torch.tensor(arr_np); print
T3_tens ==
    /\ nb = "02_on_tensors" /\ pc = "T3_tens"
    /\ LET H == TorchTensor(Heap, env["arr_np"]) IN
         /\ Commit(H)
         /\ env' = [env EXCEPT !["tens"] = Last(H)]
         /\ out' = <<Show(H, Last(H))>>
    /\ pc' = "T3_setitem"
    /\ UNCHANGED <<nb, i>>

\* cell 3: tens[0, 0] = 10.0; print(tens); print(arr_np)
T3_setitem ==
    /\ nb = "02_on_tensors" /\ pc = "T3_setitem"
    /\ LET H == [Heap EXCEPT
                   !.mem = SetItem(@, objs[env["tens"]], <<0, 0>>, TensWrite)] IN
         /\ Commit(H)
         /\ out' = <<Show(H, env["tens"]), Show(H, env["arr_np"])>>
    /\ pc' = "T4_numpy"
    /\ UNCHANGED <<nb, i, env>>

\* cell 4: arr_from_tens = tens.numpy(); print
T4_numpy ==
    /\ nb = "02_on_tensors" /\ pc = "T4_numpy"
    /\ IF NumpyRefused(objs[env["tens"]])
       THEN /\ err' = "RuntimeError" /\ out' = <<>> /\ pc' = "T13_a"
            /\ UNCHANGED <<mem, objs, tape, env>>
       ELSE LET H == Numpy(Heap, env["tens"]) IN
            /\ Commit(H)
            /\ env' = [env EXCEPT !["arr_from_tens"] = Last(H)]
            /\ out' = <<Show(H, Last(H))>>
            /\ pc' = "T4_setitem"
    /\ UNCHANGED <<nb, i>>

\* cell 4: arr_from_tens[0, 1] = 20.0; print(tens)
T4_setitem ==
    /\ nb = "02_on_tensors" /\ pc = "T4_setitem"
    /\ LET H == [Heap EXCEPT
                   !.mem = SetItem(@, objs[env["arr_from_tens"]], <<0, 1>>, ArrWrite)] IN
         /\ Commit(H)
         /\ out' = <<Show(H, env["tens"])>>
    /\ pc' = "T13_a"
    /\ UNCHANGED <<nb, i, env>>

\* cell 13: a = torch.randn(3, 1)
T13_a ==
    /\ nb = "02_on_tensors" /\ pc = "T13_a"
    /\ \E vals \in [1 .. 3 -> RandVals] :
         LET H == Randn(Heap, "tensor", <<3, 1>>, vals) IN
         /\ Commit(H)
         /\ env' = [env EXCEPT !["a"] = Last(H)]
    /\ out' = <<>>
    /\ pc' = "T15_T"
    /\ UNCHANGED <<nb, i>>

\* cell 15: print(a.T)
T15_T ==
    /\ nb = "02_on_tensors" /\ pc = "T15_T"
    /\ out' = <<ShowObj(Heap, DotT(objs[env["a"]]))>>
    /\ err' = "none"
    /\ pc' = "T16_t"
    /\ UNCHANGED <<nb, i, mem, objs, tape, env>>

\* cell 16: print(a.t())
T16_t ==
    /\ nb = "02_on_tensors" /\ pc = "T16_t"
    /\ IF TRefused(objs[env["a"]])
       THEN err' = "RuntimeError" /\ out' = <<>>
       ELSE err' = "none" /\ out' = <<ShowObj(Heap, DotLowerT(objs[env["a"]]))>>
    /\ pc' = "T17_c"
    /\ UNCHANGED <<nb, i, mem, objs, tape, env>>

\* cell 17: c = torch.randint(0, 10, size=(2, 3, 4, 5, 6)); print(c.size());
\* print(c.T.size()); print(c.transpose(0, 2).size()).  The 720 elements are
\* never read: c is kept as a view with no modelled storage (st = 0).
T17_c ==
    /\ nb = "02_on_tensors" /\ pc = "T17_c"
    /\ LET H == Put(Heap, NewObj("tensor", 0, <<2, 3, 4, 5, 6>>, FALSE, 0))
           c == H.objs[Last(H)] IN
         /\ Commit(H)
         /\ env' = [env EXCEPT !["c"] = Last(H)]
         /\ out' = <<Size(c), Size(DotT(c)), Size(Transpose(c, 0, 2))>>
    /\ pc' = "T17_t"
    /\ UNCHANGED <<nb, i>>

\* cell 17 as written: "# print(c.t().size()) # error" is a comment
T17_t_commented ==
    /\ nb = "02_on_tensors" /\ pc = "T17_t"
    /\ pc' = "end"
    /\ UNCHANGED <<nb, i, mem, objs, tape, env, out, err>>

\* cell 17 with the comment removed: print(c.t().size())
T17_t ==
    /\ nb = "02_on_tensors" /\ pc = "T17_t"
    /\ IF TRefused(objs[env["c"]])
       THEN err' = "RuntimeError" /\ out' = out
       ELSE err' = "none" /\ out' = Append(out, Size(DotLowerT(objs[env["c"]])))
    /\ pc' = "end"
    /\ UNCHANGED <<nb, i, mem, objs, tape, env>>

Next02 ==
    \/ T3_arr_np \/ T3_tens \/ T3_setitem \/ T4_numpy \/ T4_setitem
    \/ T13_a \/ T15_T \/ T16_t \/ T17_c \/ T17_t_commented \/ T17_t

---------------------------------------------------------------------------
\* Autograd: the forward operations and the graph they record.

RECURSIVE Sum(_)
Sum(s) == IF s = <<>> THEN 0 ELSE Head(s) + Sum(Tail(s))

VecAdd(u, v) == [k \in 1 .. Len(u) |-> u[k] + v[k]]

\* the value an operation computes from the values of its inputs (fixed-point)
Forward(op, xs) ==
    CASE op = "add"  -> VecAdd(xs[1], xs[2])
      [] op = "mul"  -> [k \in 1 .. Len(xs[1]) |-> (xs[1][k] * xs[2][k]) \div Unit]
      [] op = "mean" -> <<Sum(xs[1]) \div Len(xs[1])>>

\* the shape of an operation's result
OutShape(op, shapes) == IF op = "mean" THEN <<>> ELSE shapes[1]

\* a mutant of RequiresGradOut: the result never requires gradient
RequiresGradOutNever(reqs) == FALSE

\* requires_grad of a result: one input that requires gradient is enough
RequiresGradOut(reqs) == \E k \in 1 .. Len(reqs) : reqs[k]

\* whether the backward node of op keeps its operands (freed by a backward)
Saves(op) == op = "mul"

\* out = op(ins): the result over a fresh storage and, when it requires
\* gradient, its backward node appended to the graph
Apply(H, op, ins) ==
    LET xs  == [k \in 1 .. Len(ins) |-> ElemsIn(H.mem, H.objs[ins[k]])]
        req == RequiresGradOut([k \in 1 .. Len(ins) |-> H.objs[ins[k]].req])
        shp == OutShape(op, [k \in 1 .. Len(ins) |-> H.objs[ins[k]].shape])
        fn  == IF req THEN Len(H.tape) + 1 ELSE 0
        H1  == Put(Alloc(H, Forward(op, xs)),
                   NewObj("tensor", Len(H.mem) + 1, shp, req, fn))
    IN  IF req
        THEN [H1 EXCEPT !.tape = Append(@, [op |-> op, ins |-> ins,
                                            out |-> Last(H1), freed |-> FALSE])]
        ELSE H1

\* t.retain_grad()
RetainGrad(H, id) ==
    IF H.objs[id].req /\ H.objs[id].fn # 0
    THEN [H EXCEPT !.objs[id].retain = TRUE]
    ELSE H

\* a mutant of Detach: the detached tensor is a copy
DetachCopies(H, id) ==
    Put(Alloc(H, ElemsIn(H.mem, H.objs[id])),
        NewObj("tensor", Len(H.mem) + 1, H.objs[id].shape, FALSE, 0))

\* t.detach(): a tensor over the same storage, outside the graph
Detach(H, id) ==
    Put(H, [H.objs[id] EXCEPT !.req = FALSE, !.fn = 0, !.retain = FALSE,
                              !.grad = NoGrad])

---------------------------------------------------------------------------
\* Autograd: backward.

\* a mutant of MulBackward: each operand gets the gradient times itself
MulBackwardSelf(g, x, y) ==
    << [k \in 1 .. Len(g) |-> (g[k] * x[k]) \div Unit],
       [k \in 1 .. Len(g) |-> (g[k] * y[k]) \div Unit] >>

\* d(x*y): the gradient times the other operand, for each operand
MulBackward(g, x, y) ==
    << [k \in 1 .. Len(g) |-> (g[k] * y[k]) \div Unit],
       [k \in 1 .. Len(g) |-> (g[k] * x[k]) \div Unit] >>

\* d(x+y): the gradient as it is, for each operand
AddBackward(g) == <<g, g>>

\* d(mean(x)): the gradient over the number of elements, for each element
MeanBackward(g, n) == << [k \in 1 .. n |-> g[1] \div n] >>

\* the gradients node n sends to its inputs, given the gradient gout of its output
NodeBackward(H, n, gout) ==
    CASE n.op = "add"  -> AddBackward(gout)
      [] n.op = "mul"  -> MulBackward(gout, ElemsIn(H.mem, H.objs[n.ins[1]]),
                                            ElemsIn(H.mem, H.objs[n.ins[2]]))
      [] n.op = "mean" -> MeanBackward(gout, Numel(H.objs[n.ins[1]].shape))

\* a mutant of GradSum: a new gradient replaces the stored one
GradSumOverwrites(old, new) == new

\* .grad after one more gradient arrives: it accumulates
GradSum(old, new) == IF old = NoGrad THEN new ELSE VecAdd(old, new)

\* a mutant of RetainsGrad: every tensor keeps its gradient
RetainsGradAll(o) == TRUE

\* whether a non-leaf keeps the gradient that flows through it
RetainsGrad(o) == o.retain

\* a mutant of FreeNode: the graph is kept whatever retain_graph says
FreeNodeNever(n, retain_graph) == n

\* a node after backward ran through it
FreeNode(n, retain_graph) ==
    IF retain_graph THEN n ELSE [n EXCEPT !.freed = TRUE]

\* the nodes of the graph of root: S holds those found so far above k
RECURSIVE Reach(_, _, _)
Reach(H, S, k) ==
    IF k = 0 THEN S
    ELSE IF k \notin S THEN Reach(H, S, k - 1)
    ELSE Reach(H, S \cup ({H.objs[H.tape[k].ins[j]].fn :
                              j \in 1 .. Len(H.tape[k].ins)} \ {0}), k - 1)

\* gradients gin delivered to the inputs ins that require gradient, from the j-th on
RECURSIVE Deliver(_, _, _, _, _)
Deliver(H, g, ins, gin, j) ==
    IF j > Len(ins) THEN g
    ELSE Deliver(H,
                 IF H.objs[ins[j]].req
                 THEN [g EXCEPT ![ins[j]] = IF @ = <<>> THEN gin[j] ELSE VecAdd(@, gin[j])]
                 ELSE g,
                 ins, gin, j + 1)

\* AccumulateGrad: a leaf adds its gradient to .grad once every node of R that
\* uses it has run; the nodes numbered k and below have not
AccumulateLeaves(H, g, R, k) ==
    [H EXCEPT !.objs =
        [t \in 1 .. Len(H.objs) |->
            IF /\ H.objs[t].req /\ H.objs[t].fn = 0 /\ g[t] # <<>>
               /\ \A n \in R : n <= k =>
                    \A j \in 1 .. Len(H.tape[n].ins) : H.tape[n].ins[j] # t
            THEN [H.objs[t] EXCEPT !.grad = GradSum(@, g[t])]
            ELSE H.objs[t]]]

\* the engine runs the nodes of R from the newest to the oldest; a node whose
\* saved operands were freed raises and ends the pass
RECURSIVE Sweep(_, _, _, _, _)
Sweep(H, g, R, k, retain_graph) ==
    IF k = 0 THEN [H |-> AccumulateLeaves(H, g, R, 0), err |-> "none"]
    ELSE IF k \notin R THEN Sweep(H, g, R, k - 1, retain_graph)
    ELSE
      LET n    == H.tape[k]
          gout == g[n.out]
          H1   == IF RetainsGrad(H.objs[n.out])
                  THEN [H EXCEPT !.objs[n.out].grad = GradSum(@, gout)]
                  ELSE H
      IN  IF n.freed /\ Saves(n.op)
          THEN [H |-> AccumulateLeaves(H1, g, R, k), err |-> "RuntimeError"]
          ELSE Sweep([H1 EXCEPT !.tape[k] = FreeNode(n, retain_graph)],
                     Deliver(H1, g, n.ins, NodeBackward(H1, n, gout), 1),
                     R, k - 1, retain_graph)

\* root.backward(retain_graph=...): the heap after it and the error it raised
Backward(H, root, retain_graph) ==
    IF ~H.objs[root].req \/ Numel(H.objs[root].shape) # 1
    THEN [H |-> H, err |-> "RuntimeError"]
    ELSE Sweep(H,
               [t \in 1 .. Len(H.objs) |-> IF t = root THEN <<Unit>> ELSE <<>>],
               Reach(H, {H.objs[root].fn} \ {0}, Len(H.tape)),
               Len(H.tape), retain_graph)

\* t.grad.zero_(): the stored gradient is zeroed in place; None has no zero_
ZeroGrad(H, id) ==
    IF H.objs[id].grad = NoGrad
    THEN [H |-> H, err |-> "AttributeError"]
    ELSE [H |-> [H EXCEPT !.objs[id].grad = [k \in 1 .. Len(@) |-> 0]],
          err |-> "none"]

---------------------------------------------------------------------------
\* Statements of 03_autograd.ipynb.

\* the statement left heap R.H and raised R.err
CommitResult(R) ==
    /\ mem' = R.H.mem
    /\ objs' = R.H.objs
    /\ tape' = R.H.tape
    /\ err' = R.err

\* c = a + b; d = b * c; d = d + a; d.retain_grad();
\* e = torch.mean(d) + torch.mean(b)          (cell 2, and again in cell 11)
BuildGraph(H, a, b) ==
    LET Hc  == Apply(H, "add", <<a, b>>)
        c   == Last(Hc)
        Hd  == Apply(Hc, "mul", <<b, c>>)
        Hd2 == Apply(Hd, "add", <<Last(Hd), a>>)
        d   == Last(Hd2)
        Hr  == RetainGrad(Hd2, d)
        Hmd == Apply(Hr, "mean", <<d>>)
        Hmb == Apply(Hmd, "mean", <<b>>)
        He  == Apply(Hmb, "add", <<Last(Hmd), Last(Hmb)>>)
    IN  [H |-> He, c |-> c, d |-> d, e |-> Last(He)]

\* cell 1: a = torch.tensor([[1., 2], [3, 4]], requires_grad=True);
\* b = torch.ones((2, 2), requires_grad=True); a, b
A1 ==
    /\ nb = "03_autograd" /\ pc = "A1"
    /\ LET Ha == FromList(Heap, <<1 * Unit, 2 * Unit, 3 * Unit, 4 * Unit>>,
                          <<2, 2>>, TRUE)
           Hb == FromList(Ha, <<Unit, Unit, Unit, Unit>>, <<2, 2>>, TRUE) IN
         /\ Commit(Hb)
         /\ env' = [env EXCEPT !["a"] = Last(Ha), !["b"] = Last(Hb)]
         /\ out' = <<Show(Hb, Last(Ha)), Show(Hb, Last(Hb))>>
    /\ pc' = "A2"
    /\ UNCHANGED <<nb, i>>

\* cell 2
A2 ==
    /\ nb = "03_autograd" /\ pc = "A2"
    /\ LET G == BuildGraph(Heap, env["a"], env["b"]) IN
         /\ Commit(G.H)
         /\ env' = [env EXCEPT !["c"] = G.c, !["d"] = G.d, !["e"] = G.e]
    /\ out' = <<>>
    /\ pc' = "A3"
    /\ UNCHANGED <<nb, i>>

\* a cell that only prints
Prints(at, items, next) ==
    /\ nb = "03_autograd" /\ pc = at
    /\ out' = items
    /\ err' = "none"
    /\ pc' = next
    /\ UNCHANGED <<nb, i, mem, objs, tape, env>>

\* cell 3: print(c.requires_grad); print(d.requires_grad); print(e.requires_grad)
A3 ==
    Prints("A3", <<Bool(objs[env["c"]].req), Bool(objs[env["d"]].req),
                   Bool(objs[env["e"]].req)>>, "A5")

\* cell 5: print(b.grad)
A5 == Prints("A5", <<ShowGrad(Heap, env["b"])>>, "A6")

\* cell 6: e.backward()
A6 ==
    /\ nb = "03_autograd" /\ pc = "A6"
    /\ CommitResult(Backward(Heap, env["e"], FALSE))
    /\ out' = <<>>
    /\ pc' = "A7"
    /\ UNCHANGED <<nb, i, env>>

\* cell 7: print(b.grad); print(a.grad)
A7 == Prints("A7", <<ShowGrad(Heap, env["b"]), ShowGrad(Heap, env["a"])>>, "A8")

\* cell 8: print(c.grad)
A8 == Prints("A8", <<ShowGrad(Heap, env["c"])>>, "A9")

\* cell 9: print(d.grad)
A9 == Prints("A9", <<ShowGrad(Heap, env["d"])>>, "A10")

\* cell 10 as written: "# e.backward() # error" is a comment
A10_commented ==
    /\ nb = "03_autograd" /\ pc = "A10"
    /\ pc' = "A11_zero"
    /\ UNCHANGED <<nb, i, mem, objs, tape, env, out, err>>

\* cell 10 with the comment removed: e.backward()
A10 ==
    /\ nb = "03_autograd" /\ pc = "A10"
    /\ CommitResult(Backward(Heap, env["e"], FALSE))
    /\ out' = <<>>
    /\ pc' = "A11_zero"
    /\ UNCHANGED <<nb, i, env>>

\* cell 11: a.grad.zero_(); b.grad.zero_()
A11_zero ==
    /\ nb = "03_autograd" /\ pc = "A11_zero"
    /\ LET Za == ZeroGrad(Heap, env["a"])
           Zb == ZeroGrad(Za.H, env["b"])
           R  == IF Za.err # "none" THEN Za ELSE Zb IN
         /\ CommitResult(R)
         /\ pc' = IF R.err = "none" THEN "A11_build" ELSE "A12"
    /\ out' = <<>>
    /\ UNCHANGED <<nb, i, env>>

\* cell 11: c = a + b ... e = torch.mean(d) + torch.mean(b)
A11_build ==
    /\ nb = "03_autograd" /\ pc = "A11_build"
    /\ LET G == BuildGraph(Heap, env["a"], env["b"]) IN
         /\ Commit(G.H)
         /\ env' = [env EXCEPT !["c"] = G.c, !["d"] = G.d, !["e"] = G.e]
    /\ pc' = "A11_for"
    /\ UNCHANGED <<nb, i, out>>

\* cell 11: for i in range(3): e.backward(retain_graph=True)
A11_for_body ==
    /\ nb = "03_autograd" /\ pc = "A11_for"
    /\ i + 1 < LoopRange
    /\ i' = i + 1
    /\ LET R == Backward(Heap, env["e"], TRUE) IN
         /\ CommitResult(R)
         /\ pc' = IF R.err = "none" THEN "A11_for" ELSE "A12"
    /\ UNCHANGED <<nb, env, out>>

\* cell 11: range(3) is exhausted
A11_for_exit ==
    /\ nb = "03_autograd" /\ pc = "A11_for"
    /\ i + 1 = LoopRange
    /\ pc' = "A12"
    /\ UNCHANGED <<nb, i, mem, objs, tape, env, out, err>>

\* cell 12: print(b.grad)
A12 == Prints("A12", <<ShowGrad(Heap, env["b"])>>, "A13")

\* cell 13: x = torch.tensor([1., 2.], requires_grad=True)
A13 ==
    /\ nb = "03_autograd" /\ pc = "A13"
    /\ LET H == FromList(Heap, <<1 * Unit, 2 * Unit>>, <<2>>, TRUE) IN
         /\ Commit(H)
         /\ env' = [env EXCEPT !["x"] = Last(H)]
    /\ out' = <<>>
    /\ pc' = "A17"
    /\ UNCHANGED <<nb, i>>

\* x.detach().numpy(): the heap after it, the array's id, the error raised
DetachNumpy(H, id) ==
    LET Hd == Detach(H, id) IN
    IF NumpyRefused(Hd.objs[Last(Hd)])
    THEN [H |-> Hd, id |-> 0, err |-> "RuntimeError"]
    ELSE [H |-> Numpy(Hd, Last(Hd)), id |-> Last(Hd) + 1, err |-> "none"]

\* cell 17 as written ("# x.numpy() # error" is a comment):
\* print(x); print(x.detach()); print(x.detach().numpy())
A17 ==
    /\ nb = "03_autograd" /\ pc = "A17"
    /\ LET Hd == Detach(Heap, env["x"])
           R  == DetachNumpy(Hd, env["x"]) IN
         /\ CommitResult(R)
         /\ out' = <<Show(Heap, env["x"]), Show(Hd, Last(Hd))>>
                   \o (IF R.err = "none" THEN <<Show(R.H, R.id)>> ELSE <<>>)
    /\ pc' = "A18_x_dn"
    /\ UNCHANGED <<nb, i, env>>

\* cell 17 with the comment removed: x.numpy() comes first
A17_numpy ==
    /\ nb = "03_autograd" /\ pc = "A17"
    /\ IF NumpyRefused(objs[env["x"]])
       THEN /\ err' = "RuntimeError" /\ out' = <<>>
            /\ UNCHANGED <<mem, objs, tape>>
       ELSE LET H0 == Numpy(Heap, env["x"])
                Hd == Detach(H0, env["x"])
                R  == DetachNumpy(Hd, env["x"]) IN
            /\ CommitResult(R)
            /\ out' = <<Show(H0, env["x"]), Show(Hd, Last(Hd))>>
                      \o (IF R.err = "none" THEN <<Show(R.H, R.id)>> ELSE <<>>)
    /\ pc' = "A18_x_dn"
    /\ UNCHANGED <<nb, i, env>>

\* cell 18: x_dn = x.detach().numpy()
A18_x_dn ==
    /\ nb = "03_autograd" /\ pc = "A18_x_dn"
    /\ LET R == DetachNumpy(Heap, env["x"]) IN
         /\ CommitResult(R)
         /\ env' = IF R.err = "none" THEN [env EXCEPT !["x_dn"] = R.id] ELSE env
         /\ pc' = IF R.err = "none" THEN "A18_setitem" ELSE "end"
    /\ out' = <<>>
    /\ UNCHANGED <<nb, i>>

\* cell 18: x[0] = 99; print(x_dn).  The recorded run (torch 1.4.0) completes
\* the write on the leaf x and prints [99. 2.].
A18_setitem ==
    /\ nb = "03_autograd" /\ pc = "A18_setitem"
    /\ LET H == [Heap EXCEPT
                   !.mem = SetItem(@, objs[env["x"]], <<0>>, XWrite * Unit)] IN
         /\ Commit(H)
         /\ out' = <<Show(H, env["x_dn"])>>
    /\ pc' = "end"
    /\ UNCHANGED <<nb, i, env>>

Next03 ==
    \/ A1 \/ A2 \/ A3 \/ A5 \/ A6 \/ A7 \/ A8 \/ A9 \/ A10_commented \/ A10
    \/ A11_zero \/ A11_build \/ A11_for_body \/ A11_for_exit \/ A12 \/ A13
    \/ A17 \/ A17_numpy \/ A18_x_dn \/ A18_setitem

---------------------------------------------------------------------------
Init ==
    /\ nb \in {"02_on_tensors", "03_autograd"}
    /\ pc = IF nb = "02_on_tensors" THEN "T3_arr_np" ELSE "A1"
    /\ mem = <<>>
    /\ objs = <<>>
    /\ tape = <<>>
    /\ env = [n \in Names |-> 0]
    /\ i = -1
    /\ out = <<>>
    /\ err = "none"

Next == Next02 \/ Next03

Spec == Init /\ [][Next]_vars

---------------------------------------------------------------------------
\* Reading the kernel's state.

InTensors == nb = "02_on_tensors"

InAutograd == nb = "03_autograd"

Obj(name) == objs[env[name]]

Grad(name) == objs[env[name]].grad

Val(name) == Elems(env[name])

Printed(vals, shape) == [k |-> "tensor", v |-> vals, shape |-> shape, req |-> FALSE]

\* the gradient of e for b of one backward pass, (a + 2b)/4 + 1/4 elementwise
SinglePassB ==
    [k \in 1 .. 4 |-> (Val("a")[k] + 2 * Val("b")[k]) \div 4 + Unit \div 4]

\* the gradient of e for a of one backward pass, (b + 1)/4 elementwise
SinglePassA == [k \in 1 .. 4 |-> (Val("b")[k] + Unit) \div 4]

---------------------------------------------------------------------------
\* C1: gradients accumulate at the leaves.  In cell 11, after the two
\* zero_() calls and the rebuilt graph, every e.backward(retain_graph=True)
\* adds the single-pass gradient g = (a + 2b)/4 + 1/4 to b.grad: after the
\* k = i + 1 calls made so far b.grad = k * g, and after the loop's 3 calls
\* b.grad = [[3.0, 3.75], [4.5, 5.25]], which cell 12 prints.
C1_Accumulates ==
    InAutograd =>
      /\ pc = "A11_for" =>
           /\ err = "none"
           /\ Grad("b") = [k \in 1 .. 4 |-> (i + 1) * SinglePassB[k]]
      /\ pc \in {"A12", "A13"} =>
           /\ i + 1 = LoopRange
           /\ SinglePassB = <<4, 5, 6, 7>>
           /\ Grad("b") = <<12, 15, 18, 21>>
      /\ pc = "A13" => out = <<Printed(<<12, 15, 18, 21>>, <<2, 2>>)>>

C1_Witness ==
    /\ InAutograd /\ pc = "A13" /\ i = 2
    /\ Grad("b") = <<12, 15, 18, 21>>

\* C2: the graph is freed by a backward unless retain_graph=True.  The
\* second e.backward() (cell 10 with its comment removed, after cell 6's
\* e.backward()) raises and leaves a.grad and b.grad as they were; every
\* e.backward(retain_graph=True) of cell 11's loop, the ones after the first
\* included, succeeds.
C2_GraphFreed ==
    [][ /\ A10 => /\ err' = "RuntimeError"
                  /\ Grad("a")' = Grad("a")
                  /\ Grad("b")' = Grad("b")
                  /\ Grad("a") # NoGrad
        /\ A11_for_body => err' = "none" /\ pc' = "A11_for" ]_vars

C2_Witness ==
    /\ InAutograd /\ pc = "A11_zero" /\ err = "RuntimeError"
    /\ Grad("b") = <<4, 5, 6, 7>>

\* C3: for a = [[1,2],[3,4]], b = ones(2,2) and the graph of cell 2, the
\* leaves' grad is None before any backward, and after the first e.backward()
\* b.grad = [[1.0, 1.25], [1.5, 1.75]] = (a + 2b)/4 + 1/4 and
\* a.grad = [[0.5, 0.5], [0.5, 0.5]] = (b + 1)/4.
C3_FirstBackward ==
    InAutograd =>
      /\ pc \in {"A2", "A3", "A5", "A6"} =>
           /\ Val("a") = <<1 * Unit, 2 * Unit, 3 * Unit, 4 * Unit>>
           /\ Val("b") = <<Unit, Unit, Unit, Unit>>
           /\ Grad("a") = NoGrad /\ Grad("b") = NoGrad
      /\ pc = "A6" => out = <<None>>
      /\ pc \in {"A7", "A8", "A9", "A10"} =>
           /\ err = "none"
           /\ Grad("b") = <<4, 5, 6, 7>> /\ Grad("b") = SinglePassB
           /\ Grad("a") = <<2, 2, 2, 2>> /\ Grad("a") = SinglePassA
      /\ pc = "A8" => out = << Printed(<<4, 5, 6, 7>>, <<2, 2>>),
                               Printed(<<2, 2, 2, 2>>, <<2, 2>>) >>

C3_Witness ==
    /\ InAutograd /\ pc = "A8"
    /\ Grad("b") = <<4, 5, 6, 7>> /\ Grad("a") = <<2, 2, 2, 2>>

\* C4: after e.backward() a non-leaf keeps a gradient only if retain_grad()
\* was called on it: c (non-leaf, no retain_grad) has c.grad = None, and the
\* d bound by "d = d + a" (non-leaf, retain_grad called) has
\* d.grad = [[0.25, 0.25], [0.25, 0.25]].
C4_RetainGrad ==
    InAutograd =>
      /\ \A t \in 1 .. Len(objs) :
           (objs[t].fn # 0 /\ objs[t].grad # NoGrad) => objs[t].retain
      /\ pc \in {"A7", "A8", "A9", "A10"} =>
           /\ Obj("c").fn # 0 /\ ~Obj("c").retain /\ Grad("c") = NoGrad
           /\ Obj("d").fn # 0 /\ Obj("d").retain
           /\ tape[Obj("d").fn].op = "add"
           /\ Grad("d") = <<1, 1, 1, 1>>
      /\ pc = "A9" => out = <<None>>
      /\ pc = "A10" => out = <<Printed(<<1, 1, 1, 1>>, <<2, 2>>)>>

C4_Witness ==
    /\ InAutograd /\ pc = "A10"
    /\ Grad("c") = NoGrad /\ Grad("d") = <<1, 1, 1, 1>>

\* C5: an operation with an input that requires gradient gives an output
\* that requires gradient: every tensor derived from a or b (c, both d, the
\* two means, e) has requires_grad = True, as cell 3 prints.
C5_RequiresGrad ==
    InAutograd =>
      /\ \A n \in {"c", "d", "e"} : env[n] # 0 => Obj(n).req /\ Obj(n).fn # 0
      /\ \A k \in 1 .. Len(tape) : objs[tape[k].out].req
      /\ pc \in {"A3", "A5"} => Len(tape) = 6 /\ Len(objs) = 8
      /\ pc = "A5" => out = <<Bool(TRUE), Bool(TRUE), Bool(TRUE)>>

C5_Witness ==
    /\ InAutograd /\ pc = "A5"
    /\ out = <<Bool(TRUE), Bool(TRUE), Bool(TRUE)>>
    /\ Obj("e").req

\* C6: x.numpy() on x (requires_grad=True) raises; x.detach().numpy()
\* succeeds and returns [1., 2.]; x.detach() has requires_grad = False and
\* leaves x unchanged (x prints with requires_grad=True and the same values).
C6_NumpyNeedsDetach ==
    [][ /\ A17_numpy => /\ err' = "RuntimeError"
                        /\ Obj("x").req
                        /\ objs' = objs /\ mem' = mem
        /\ A17 => /\ err' = "none"
                  /\ out' = << [k |-> "tensor", v |-> <<1 * Unit, 2 * Unit>>,
                                shape |-> <<2>>, req |-> TRUE],
                               [k |-> "tensor", v |-> <<1 * Unit, 2 * Unit>>,
                                shape |-> <<2>>, req |-> FALSE],
                               [k |-> "ndarray", v |-> <<1 * Unit, 2 * Unit>>,
                                shape |-> <<2>>, req |-> FALSE] >>
                  /\ Obj("x")' = Obj("x")
                  /\ Val("x")' = Val("x") ]_vars

C6_Witness ==
    /\ InAutograd /\ pc = "A18_x_dn" /\ err = "RuntimeError"
    /\ Obj("x").req

\* C7: detach() and numpy() are views on the storage of x: after
\* x_dn = x.detach().numpy() the write x[0] = 99 on the leaf x completes and
\* x_dn reads [99., 2.], which cell 18 prints.
C7_SharedStorage ==
    InAutograd =>
      /\ pc = "A18_setitem" =>
           /\ Obj("x").req /\ Obj("x").fn = 0
           /\ Obj("x_dn").st = Obj("x").st
           /\ Val("x_dn") = <<1 * Unit, 2 * Unit>>
      /\ pc = "end" =>
           /\ err = "none"
           /\ Val("x") = <<XWrite * Unit, 2 * Unit>>
           /\ Val("x_dn") = <<XWrite * Unit, 2 * Unit>>
           /\ out = << [k |-> "ndarray", v |-> <<XWrite * Unit, 2 * Unit>>,
                        shape |-> <<2>>, req |-> FALSE] >>

C7_Witness ==
    /\ InAutograd /\ pc = "end"
    /\ Val("x_dn") = <<XWrite * Unit, 2 * Unit>>

\* C8: torch.tensor(arr_np) copies its argument: once arr_np is bound, no
\* statement (the write tens[0, 0] = 10.0 and the write through the numpy
\* view arr_from_tens[0, 1] = 20.0 included) changes an element of arr_np.
C8_TensorCopies ==
    [][ (InTensors /\ env["arr_np"] # 0) =>
          /\ env'["arr_np"] = env["arr_np"]
          /\ Val("arr_np")' = Val("arr_np") ]_vars

C8_Witness ==
    /\ InTensors /\ pc = "T13_a"
    /\ Val("tens")[1] = TensWrite /\ Val("tens")[2] = ArrWrite
    /\ Val("arr_np")[1] # TensWrite /\ Val("arr_np")[2] # ArrWrite

\* C9: tens.numpy() is a view on the memory of tens: once arr_from_tens is
\* bound, tens and arr_from_tens hold equal values at every index; the array
\* shows the earlier write tens[0, 0] = 10.0 and the tensor shows the later
\* write arr_from_tens[0, 1] = 20.0.
C9_NumpyView ==
    (InTensors /\ env["arr_from_tens"] # 0) =>
      /\ Obj("arr_from_tens").shape = Obj("tens").shape
      /\ \A r \in 0 .. 1 : \A c \in 0 .. 2 :
           mem[Obj("tens").st][Pos(Obj("tens"), <<r, c>>)] =
           mem[Obj("arr_from_tens").st][Pos(Obj("arr_from_tens"), <<r, c>>)]
      /\ Val("arr_from_tens")[1] = TensWrite
      /\ pc = "T4_setitem" =>
           out = <<[k |-> "ndarray", v |-> Val("tens"), shape |-> <<2, 3>>,
                    req |-> FALSE]>>
      /\ pc # "T4_setitem" =>
           /\ Val("tens")[2] = ArrWrite
           /\ Val("arr_from_tens")[2] = ArrWrite
      /\ pc = "T13_a" =>
           out = <<[k |-> "tensor", v |-> Val("arr_from_tens"),
                    shape |-> <<2, 3>>, req |-> FALSE]>>

C9_Witness ==
    /\ InTensors /\ pc = "T13_a"
    /\ Val("arr_from_tens")[1] = TensWrite /\ Val("tens")[2] = ArrWrite

\* C10: t() is refused on a tensor with more than 2 dimensions: c.t() on
\* the 5-dimensional c of size (2, 3, 4, 5, 6) raises and leaves c unchanged;
\* a.t() on the 2-dimensional a of size (3, 1) succeeds and prints what a.T
\* printed in the cell before.
C10_MatrixTranspose ==
    [][ /\ T17_t => /\ Obj("c").shape = <<2, 3, 4, 5, 6>>
                    /\ err' = "RuntimeError"
                    /\ Obj("c")' = Obj("c")
                    /\ objs' = objs /\ mem' = mem /\ out' = out
        /\ T16_t => /\ Obj("a").shape = <<3, 1>>
                    /\ err' = "none"
                    /\ out = <<[k |-> "tensor", v |-> Val("a"),
                                shape |-> <<1, 3>>, req |-> FALSE]>>
                    /\ out' = out
                    /\ objs' = objs /\ mem' = mem ]_vars

C10_Witness ==
    /\ InTensors /\ pc = "end" /\ err = "RuntimeError"
    /\ Obj("c").shape = <<2, 3, 4, 5, 6>>

---------------------------------------------------------------------------
\* Variables and the storage behind them.

\* a variable bound to an object whose elements are modelled
Bound(n) == env[n] # 0 /\ objs[env[n]].st # 0

\* the variable the next statement writes through in place, "none" if none
WriteTarget ==
    CASE InTensors /\ pc = "T3_setitem"   -> "tens"
      [] InTensors /\ pc = "T4_setitem"   -> "arr_from_tens"
      [] InAutograd /\ pc = "A18_setitem" -> "x"
      [] OTHER -> "none"

\* whether the next statement is a backward or a zero_() on a .grad
WritesGrad == InAutograd /\ pc \in {"A6", "A10", "A11_zero", "A11_for"}

\* C11 as stated: the elements read through a variable change only when the
\* variable itself is rebound (or written through), never as the effect of
\* a write made through a different variable.
C11_NoSharedState ==
    [][ \A n \in Names :
          (Bound(n) /\ env'[n] = env[n] /\ n # WriteTarget)
          => Val(n)' = Val(n) ]_vars

\* C11 amended: the elements read through a variable that is not rebound
\* change only by an in-place write made through a variable over the same
\* storage (itself, or a view: tens / arr_from_tens, x / x_dn); a write
\* through a variable over another storage never changes them; and the
\* .grad of an object changes only in a backward() or a .grad.zero_().
C11_SharedOnlyThroughViews ==
    [][ /\ \A n \in Names :
             (Bound(n) /\ env'[n] = env[n] /\ Val(n)' # Val(n))
             => /\ WriteTarget # "none"
                /\ Obj(WriteTarget).st = Obj(n).st
        /\ \A t \in 1 .. Len(objs) :
             objs'[t].grad # objs[t].grad => WritesGrad ]_vars

\* the write through arr_from_tens has changed tens, its view, and not arr_np
C11_Witness ==
    /\ InTensors /\ pc = "T13_a"
    /\ Obj("arr_from_tens").st = Obj("tens").st
    /\ env["arr_from_tens"] # env["tens"]
    /\ Obj("arr_np").st # Obj("tens").st
    /\ Val("tens")[2] = ArrWrite
    /\ Val("arr_np")[2] # ArrWrite

=============================================================================
